---------------------------- MODULE Spec2Model ----------------------------
(***************************************************************************)
(* kube-runtime/src/utils.rs: SplitCase, trystream_split_result and        *)
(* trystream_try_via.                                                      *)
(*                                                                         *)
(* One source stream sits behind Rc<PinCell<Peekable<S>>> (the variable    *)
(* inner).  Every SplitCase branch polls it: borrow the cell, peek the     *)
(* head item, consume it when should_consume_item accepts it, otherwise    *)
(* return Pending.  trystream_try_via feeds the Ok branch to a caller's    *)
(* transformation and merges its output with the Err branch with           *)
(* futures::stream::select.                                                *)
(***************************************************************************)
EXTENDS Integers, Sequences, FiniteSets

\* Longest source stream, largest payload.
MaxLen == 3
MaxVal == 2

Vals == 1..MaxVal
Kinds == {"ok", "err"}
Branches == {"oks", "errs"}
Tasks == {"oks", "errs", "merged"}

VARIABLES
  src,     \* the items the source stream yields, in order: [kind, val]
  cases,   \* per branch: the two fn pointers of the SplitCase
  keep,    \* the payloads the caller's transformation lets through
  inner,   \* the shared Rc<PinCell<Peekable<S>>>
  guard,   \* the branches whose poll frame owns a live PinMut guard
  alive,   \* alive[b]: the SplitCase has not been dropped
  out,     \* out[b]: what the branch has returned in Ready(Some(_)), in order
  last,    \* last[b]: the outcome of the branch's latest poll
  ended,   \* ended[b]: the branch has returned Ready(None)
  pc,      \* the poll_next call in progress, and where it stands
  fatal,   \* "none", or the panic that ended the program
  woken,   \* the tasks whose waker has been called since they last polled
  sel,     \* the state of the Select on top of the two branches
  merged,  \* what the merged stream has returned in Ready(Some(_)), in order
  flat     \* a try_flatten_applied / try_flatten_touched stream, when one runs

vars == <<src, cases, keep, inner, guard, alive, out, last, ended, pc, fatal,
          woken, sel, merged, flat>>

--------------------------------------------------------------------------
(* Items and poll results *)

NoItem == [kind |-> "none", val |-> 0, at |-> 0]

\* The item at source position i, tagged with that position.
ItemAt(i) == [kind |-> src[i].kind, val |-> src[i].val, at |-> i]

Pending == [tag |-> "pending", val |-> 0, at |-> 0]
ReadyNone == [tag |-> "end", val |-> 0, at |-> 0]
ReadySome(v, i) == [tag |-> "item", val |-> v, at |-> i]
Panic(msg) == [tag |-> msg, val |-> 0, at |-> 0]

PanicTags == {"panic_borrow", "panic_extract", "panic_peekable"}

Other(b) == IF b = "oks" THEN "errs" ELSE "oks"

--------------------------------------------------------------------------
(* The function pointers a SplitCase may hold *)

\* Mutant: the Ok predicate accepts every item.
is_any(x) == TRUE

is_ok(x) == x.kind = "ok"
\* Mutant: the Err predicate is a copy of the Ok predicate.
is_err_copy(x) == x.kind = "ok"

is_err(x) == x.kind = "err"

\* Result::ok and Result::err: Some(payload) or None, as a sequence.
ok(x) == IF x.kind = "ok" THEN <<x.val>> ELSE <<>>
err(x) == IF x.kind = "err" THEN <<x.val>> ELSE <<>>

should_consume_item(case, x) ==
  IF case.should = "is_ok" THEN is_ok(x) ELSE is_err(x)

try_extract_item_case(case, x) ==
  IF case.extract = "ok" THEN ok(x) ELSE err(x)

CaseSet == [should : {"is_ok", "is_err"}, extract : {"ok", "err"}]

trystream_split_result ==
  [b \in Branches |->
     IF b = "oks" THEN [should |-> "is_ok", extract |-> "ok"]
     ELSE [should |-> "is_err", extract |-> "err"]]

--------------------------------------------------------------------------
(* The source stream, Peekable and PinCell *)

\* How the source behaves once it stands at a position (so many items
\* pulled): "ready" straight after the pull that brought it there; "late":
\* it is found pending, takes the waker and makes its progress, calling the
\* waker, before the poll_next that polled it has returned to the executor;
\* "wait": it is found pending and makes its progress between two polls.
Readiness == {"ready", "late", "wait"}

\* One poll of the source behind Peekable's Fuse.  cx is the polling task,
\* rd the readiness of the source by position.
StreamPoll(c, cx, rd) ==
  IF c.fused THEN [c |-> c, tag |-> "end", item |-> NoItem]
  ELSE IF ~c.avail /\ rd[c.pulled] = "late"
    THEN [c |-> [c EXCEPT !.avail = TRUE, !.woke = @ \cup {cx}],
          tag |-> "pending", item |-> NoItem]
  ELSE IF ~c.avail
    THEN [c |-> [c EXCEPT !.waker = cx], tag |-> "pending", item |-> NoItem]
  ELSE IF c.pulled < Len(src)
    THEN [c |-> [c EXCEPT !.pulled = @ + 1,
                          !.avail = (rd[c.pulled + 1] = "ready")],
          tag |-> "some", item |-> ItemAt(c.pulled + 1)]
  ELSE [c |-> [c EXCEPT !.fused = TRUE], tag |-> "end", item |-> NoItem]

\* Mutant: the item a peek pulls from the source is not kept.
cache_lost(p) == p

\* Peekable::peek stores the item a source poll yields in the cache.
cache(p) ==
  IF p.tag = "some"
    THEN [c |-> [p.c EXCEPT !.peeked = <<p.item>>], tag |-> "some", item |-> p.item]
    ELSE p

\* Mutant: a peek polls the source even when the cache holds an item.
peek_again(c, cx, rd) == cache(StreamPoll(c, cx, rd))

\* Peekable::peek: the cached item, or the next one pulled into the cache.
peek(c, cx, rd) ==
  IF c.peeked # <<>> THEN [c |-> c, tag |-> "some", item |-> c.peeked[1]]
  ELSE cache(StreamPoll(c, cx, rd))

\* Mutant: the cached item is returned and left in the cache.
peekable_poll_next_keep(c, cx, rd) ==
  IF c.peeked # <<>>
    THEN [c |-> c, tag |-> "some", item |-> c.peeked[1]]
    ELSE StreamPoll(c, cx, rd)

\* Mutant: the cache is ignored and the source is polled again.
peekable_poll_next_nocache(c, cx, rd) == StreamPoll(c, cx, rd)

\* Peekable::poll_next: takes the cached item, else polls the source.
peekable_poll_next(c, cx, rd) ==
  IF c.peeked # <<>>
    THEN [c |-> [c EXCEPT !.peeked = <<>>], tag |-> "some", item |-> c.peeked[1]]
    ELSE StreamPoll(c, cx, rd)

\* Mutant: the guard is kept when the poll returns Pending.
release_leak(c, r) ==
  IF r.tag = "pending" THEN c ELSE [c EXCEPT !.borrowed = FALSE]

\* The number of Rc handles on the cell: one per SplitCase not yet dropped.
strong_count(a) == Cardinality({b \in Branches : a[b]})

\* Mutant: the drop of any handle destroys the cell.
rc_drop_eager(c, n) == [c EXCEPT !.live = FALSE]

\* The drop of one Rc handle, which leaves n: the last one destroys the
\* cell with the source and the cached item (its fields are then dead).
rc_drop(c, n) == IF n = 0 THEN [c EXCEPT !.live = FALSE] ELSE c

\* PinCell::borrow_mut and the drop of the PinMut guard.
borrow_mut(c) == [c EXCEPT !.borrowed = TRUE]
release(c, r) == [c EXCEPT !.borrowed = FALSE]

--------------------------------------------------------------------------
(* SplitCase::poll_next *)

\* Mutant: an extractor that returns None makes the poll return Pending.
expect_lenient(c, at, ex) ==
  IF ex = <<>> THEN [c |-> c, r |-> Pending]
  ELSE [c |-> c, r |-> ReadySome(ex[1], at)]

\* Lines 71-73: the extractor's value, or the panic of expect().
expect(c, at, ex) ==
  IF ex = <<>> THEN [c |-> c, r |-> Panic("panic_extract")]
  ELSE [c |-> c, r |-> ReadySome(ex[1], at)]

\* Lines 70-78: nx is what Peekable::poll_next returned after a peek that
\* showed an item.
consume(nx, case) ==
  IF nx.tag = "some"
    THEN expect(nx.c, nx.item.at, try_extract_item_case(case, nx.item))
    ELSE [c |-> nx.c, r |-> Panic("panic_peekable")]

\* Mutant: a declined item makes the branch report end-of-sequence.
decide_end(pk, case, cx, rd) ==
  IF pk.tag = "some" THEN
    IF should_consume_item(case, pk.item)
      THEN consume(peekable_poll_next(pk.c, cx, rd), case)
      ELSE [c |-> pk.c, r |-> ReadyNone]
  ELSE IF pk.tag = "end" THEN [c |-> pk.c, r |-> ReadyNone]
  ELSE [c |-> pk.c, r |-> Pending]

\* Mutant: a declined item is consumed and thrown away.
decide_skip(pk, case, cx, rd) ==
  IF pk.tag = "some" THEN
    IF should_consume_item(case, pk.item)
      THEN consume(peekable_poll_next(pk.c, cx, rd), case)
      ELSE [c |-> peekable_poll_next(pk.c, cx, rd).c, r |-> Pending]
  ELSE IF pk.tag = "end" THEN [c |-> pk.c, r |-> ReadyNone]
  ELSE [c |-> pk.c, r |-> Pending]

\* Mutant: a declined item leaves the polling task's waker with the source.
decide_register(pk, case, cx, rd) ==
  IF pk.tag = "some" THEN
    IF should_consume_item(case, pk.item)
      THEN consume(peekable_poll_next(pk.c, cx, rd), case)
      ELSE [c |-> [pk.c EXCEPT !.waker = cx], r |-> Pending]
  ELSE IF pk.tag = "end" THEN [c |-> pk.c, r |-> ReadyNone]
  ELSE [c |-> pk.c, r |-> Pending]

\* Lines 67-86: the match on what the peek returned (pk).
decide(pk, case, cx, rd) ==
  IF pk.tag = "some" THEN
    IF should_consume_item(case, pk.item)
      THEN consume(peekable_poll_next(pk.c, cx, rd), case)
      ELSE [c |-> pk.c, r |-> Pending]
  ELSE IF pk.tag = "end" THEN [c |-> pk.c, r |-> ReadyNone]
  ELSE [c |-> pk.c, r |-> Pending]

\* What poll_next does once it holds the guard: peek, decide, consume.
poll_body(c, case, cx, rd) == decide(peek(c, cx, rd), case, cx, rd)

\* The guard is dropped when poll_next returns p.
finish(p) == [c |-> release(p.c, p.r), r |-> p.r]

\* Mutant: the cell hands out a second guard while the first is live.
poll_next_unchecked(c, case, cx, rd) ==
  finish(poll_body(borrow_mut(c), case, cx, rd))

\* The whole call, for callers that poll a branch inside their own poll.
poll_next(c, case, cx, rd) ==
  IF c.borrowed THEN [c |-> c, r |-> Panic("panic_borrow")]
  ELSE finish(poll_body(borrow_mut(c), case, cx, rd))

\* What a returned poll leaves in the branch's record.
Emit(o, b, r) ==
  IF r.tag = "item" THEN [o EXCEPT ![b] = Append(@, [val |-> r.val, at |-> r.at])]
  ELSE o

Idle == [who |-> "none", at |-> "idle"]

\* No flattening stream has been built.
NoFlatten ==
  [mode |-> "none", input |-> <<>>, pos |-> 0, next |-> <<>>, out |-> <<>>,
   last |-> "none", done |-> FALSE]

--------------------------------------------------------------------------
(* Initial states *)

Sources == UNION {[1..n -> [kind : Kinds, val : Vals]] : n \in 0..MaxLen}

\* The sources of every pattern of kinds, their payloads numbered in turn.
NumberedSources ==
  UNION {{[i \in 1..n |-> [kind |-> k[i], val |-> ((i - 1) % MaxVal) + 1]] :
            k \in [1..n -> Kinds]} : n \in 0..MaxLen}

\* live: the Rc still has an owner, so the cell and what it holds exist.
\* woke: the tasks whose waker the source called during the running poll.
InitCell(a) ==
  [borrowed |-> FALSE, peeked |-> <<>>, fused |-> FALSE, pulled |-> 0,
   avail |-> a, waker |-> "none", live |-> TRUE, woke |-> {}]

InitCommon ==
  /\ \E a \in BOOLEAN : inner = InitCell(a)
  /\ guard = {}
  /\ alive = [b \in Branches |-> TRUE]
  /\ out = [b \in Branches |-> <<>>]
  /\ last = [b \in Branches |-> "none"]
  /\ ended = [b \in Branches |-> FALSE]
  /\ pc = Idle
  /\ fatal = "none"
  /\ sel = [flag |-> FALSE, done |-> {}, last |-> "none"]
  /\ merged = <<>>

\* The two branches of trystream_split_result, polled by their own tasks.
Init ==
  /\ InitCommon
  /\ flat = NoFlatten
  /\ src \in Sources
  /\ cases = trystream_split_result
  /\ keep = Vals
  /\ woken = {}

--------------------------------------------------------------------------
(* Actions: a branch poll, step by step *)

\* A branch polled on its own polls the source at most once before it
\* returns Pending, so progress during the poll is progress after it.
Rd(nx) == [p \in 0..Len(src) |-> IF nx THEN "ready" ELSE "wait"]

\* poll_next line 64: PinCell::borrow_mut.
Borrow(b) ==
  /\ pc.at = "idle"
  /\ alive[b]
  /\ fatal = "none"
  /\ IF inner.borrowed
       THEN /\ fatal' = "panic_borrow"
            /\ UNCHANGED <<inner, guard, pc>>
       ELSE /\ inner' = borrow_mut(inner)
            /\ guard' = guard \cup {b}
            /\ pc' = [who |-> b, at |-> "borrowed"]
            /\ UNCHANGED fatal
  /\ woken' = woken \ {b}
  /\ UNCHANGED <<src, cases, keep, alive, out, last, ended, sel, merged, flat>>

\* poll_next returns p to the caller of branch b: the guard is gone, the
\* result (or the panic) is out.
Returned(b, p) ==
  /\ inner' = p.c
  /\ guard' = IF p.c.borrowed THEN guard ELSE guard \ {b}
  /\ out' = Emit(out, b, p.r)
  /\ last' = [last EXCEPT ![b] = p.r.tag]
  /\ ended' = [ended EXCEPT ![b] = @ \/ p.r.tag = "end"]
  /\ fatal' = IF p.r.tag \in PanicTags THEN p.r.tag ELSE fatal
  /\ pc' = Idle

\* poll_next lines 65-87: the body under the guard, and the return.
Poll(b) ==
  /\ pc.who = b
  /\ pc.at = "borrowed"
  /\ \E nx \in BOOLEAN :
       Returned(b, finish(poll_body(inner, cases[b], b, Rd(nx))))
  /\ UNCHANGED <<src, cases, keep, alive, woken, sel, merged, flat>>

\* The holder of a branch drops it.
Drop(b) ==
  /\ pc.at = "idle"
  /\ alive[b]
  /\ fatal = "none"
  /\ alive' = [alive EXCEPT ![b] = FALSE]
  /\ inner' = rc_drop(inner, strong_count([alive EXCEPT ![b] = FALSE]))
  /\ UNCHANGED <<src, cases, keep, guard, out, last, ended, pc, fatal,
                 woken, sel, merged, flat>>

\* The source becomes ready and wakes the task that polled it last.  Seen
\* between two polls: progress made during a poll shows at the next one.
SourceProgress ==
  /\ pc.at = "idle"
  /\ ~inner.avail
  /\ ~inner.fused
  /\ fatal = "none"
  /\ inner' = [inner EXCEPT !.avail = TRUE, !.waker = "none"]
  /\ woken' = woken \cup ({inner.waker} \ {"none"})
  /\ UNCHANGED <<src, cases, keep, guard, alive, out, last, ended, pc, fatal,
                 sel, merged, flat>>

Next ==
  \/ \E b \in Branches : Borrow(b)
  \/ \E b \in Branches : Poll(b)
  \/ \E b \in Branches : Drop(b)
  \/ SourceProgress

Spec == Init /\ [][Next]_vars

\* SplitCase branches built by hand: any predicate with any extractor.
InitCase ==
  /\ InitCommon
  /\ flat = NoFlatten
  /\ src \in NumberedSources
  /\ cases \in [Branches -> CaseSet]
  /\ keep = Vals
  /\ woken = {}

SpecCase == InitCase /\ [][Next]_vars

\* Both branches stay alive and are polled again and again; the source
\* becomes ready at every position, however the polls fall (its progress
\* is seen between polls, hence the strong fairness).
NextLive ==
  \/ \E b \in Branches : Borrow(b)
  \/ \E b \in Branches : Poll(b)
  \/ SourceProgress

\* The liveness runs take the sources of every pattern of kinds.
InitFair ==
  /\ InitCommon
  /\ flat = NoFlatten
  /\ src \in NumberedSources
  /\ cases = trystream_split_result
  /\ keep = Vals
  /\ woken = {}

SpecFair ==
  /\ InitFair
  /\ [][NextLive]_vars
  /\ \A b \in Branches : SF_vars(Borrow(b))
  /\ \A b \in Branches : WF_vars(Poll(b))
  /\ SF_vars(SourceProgress)

--------------------------------------------------------------------------
(* The two branches driven by separate consumers, each polling its branch *)
(* at first, after every item it got, and when its task is woken          *)

BorrowDriven(b) ==
  /\ b \in woken
  /\ Borrow(b)

\* The poll returns to the branch's consumer, which polls again after an
\* item and otherwise suspends until its waker is called.
PollDriven(b) ==
  /\ pc.who = b
  /\ pc.at = "borrowed"
  /\ \E nx \in BOOLEAN :
       Returned(b, finish(poll_body(inner, cases[b], b, Rd(nx))))
  /\ woken' = IF last'[b] = "item" THEN woken \cup {b} ELSE woken
  /\ UNCHANGED <<src, cases, keep, alive, sel, merged, flat>>

InitDriven ==
  /\ InitCommon
  /\ flat = NoFlatten
  /\ src \in NumberedSources
  /\ cases = trystream_split_result
  /\ keep = Vals
  /\ woken = Branches

NextDriven ==
  \/ \E b \in Branches : BorrowDriven(b)
  \/ \E b \in Branches : PollDriven(b)
  \/ SourceProgress

SpecDriven == InitDriven /\ [][NextDriven]_vars

--------------------------------------------------------------------------
(* Re-entrant polls: a poll of a branch made while a poll_next of the     *)
(* group is still running, as when the source's own poll polls a sibling  *)

\* The nested poll_next of branch b returned p into the running poll.  A
\* panic unwinds the running poll; otherwise the running poll goes on.
Nested(b, p) ==
  /\ inner' = p.c
  /\ out' = Emit(out, b, p.r)
  /\ last' = [last EXCEPT ![b] = p.r.tag]
  /\ ended' = [ended EXCEPT ![b] = @ \/ p.r.tag = "end"]
  /\ fatal' = IF p.r.tag \in PanicTags THEN p.r.tag ELSE fatal
  /\ pc' = IF p.r.tag \in PanicTags
             THEN [who |-> pc.who, at |-> "unwinding"]
             ELSE pc

\* poll_next of branch b is entered while the poll of pc.who holds the
\* guard (line 64 runs a second time before the first guard is dropped).
Reenter(b) ==
  /\ pc.at = "borrowed"
  /\ alive[b]
  /\ fatal = "none"
  /\ \E nx \in BOOLEAN : Nested(b, poll_next(inner, cases[b], b, Rd(nx)))
  /\ UNCHANGED <<src, cases, keep, guard, alive, woken, sel, merged, flat>>

NextReenter ==
  \/ Next
  \/ \E b \in Branches : Reenter(b)

SpecReenter == InitCase /\ [][NextReenter]_vars

--------------------------------------------------------------------------
(* trystream_try_via: one poll of the merged stream is one step *)

\* What a poll_next of branch b that returned p leaves behind.  w holds
\* the cell and the branches' records.
record(w, b, p) ==
  [w |-> [inner |-> p.c,
          out |-> Emit(w.out, b, p.r),
          last |-> [w.last EXCEPT ![b] = p.r.tag],
          ended |-> [w.ended EXCEPT ![b] = @ \/ p.r.tag = "end"]],
   r |-> p.r]

\* A whole poll_next of branch b, made from inside another stream's poll.
branch_poll(w, b, cx, rd) ==
  record(w, b, poll_next(w.inner, cases[b], cx, rd))

\* One turn of the transformation's loop: p is what oks returned last.
via_turn(p, cx, rd) ==
  IF p.r.tag = "item" /\ p.r.val \notin keep
    THEN branch_poll(p.w, "oks", cx, rd)
    ELSE p

\* The stream make_via_stream(oks) returns.  The caller's transformation
\* lets the payloads in keep through and swallows the others, polling oks
\* again in the same poll; keep = Vals is the identity.  The loop ends with
\* the first poll of oks that is not a swallowed item, after at most one
\* poll per source item and one more.
via_poll(w, cx, rd) ==
  LET loop[k \in 0..Len(src)] ==
        IF k = 0 THEN branch_poll(w, "oks", cx, rd)
        ELSE via_turn(loop[k - 1], cx, rd)
  IN loop[Len(src)]

\* Fuse remembers that its stream returned Ready(None).
fuse_mark(p, done, side) ==
  [w |-> p.w, r |-> p.r,
   done |-> IF p.r.tag = "end" THEN done \cup {side} ELSE done]

\* Select's Fuse around each side: a side that ended is not polled again.
fuse_poll(w, done, side, cx, rd) ==
  IF side \in done THEN [w |-> w, r |-> ReadyNone, done |-> done]
  ELSE IF side = "via" THEN fuse_mark(via_poll(w, cx, rd), done, side)
  ELSE fuse_mark(branch_poll(w, "errs", cx, rd), done, side)

\* Select's poll_inner after both sides were polled: pa first, pb second.
poll_second(pa, pb, flag, b) ==
  IF pb.r.tag = "item" \/ pb.r.tag \in PanicTags
    THEN [w |-> pb.w, flag |-> flag, done |-> pb.done, r |-> pb.r, side |-> b]
  ELSE IF pb.r.tag = "end" /\ pa.r.tag = "end"
    THEN [w |-> pb.w, flag |-> flag, done |-> pb.done, r |-> ReadyNone, side |-> b]
  ELSE [w |-> pb.w, flag |-> flag, done |-> pb.done, r |-> Pending, side |-> b]

\* Mutant: the second side is polled only when the first one has ended.
poll_inner_first(pa, flag, a, b, cx, rd) ==
  IF pa.r.tag = "item"
    THEN [w |-> pa.w, flag |-> ~flag, done |-> pa.done, r |-> pa.r, side |-> a]
  ELSE IF pa.r.tag = "end"
    THEN poll_second(pa, fuse_poll(pa.w, pa.done, b, cx, rd), flag, b)
  ELSE [w |-> pa.w, flag |-> flag, done |-> pa.done, r |-> pa.r, side |-> a]

\* Select's poll_inner: side a was polled first and returned pa.  An item
\* of the first side flips the order for the next poll.
poll_inner(pa, flag, a, b, cx, rd) ==
  IF pa.r.tag = "item"
    THEN [w |-> pa.w, flag |-> ~flag, done |-> pa.done, r |-> pa.r, side |-> a]
  ELSE IF pa.r.tag \in PanicTags
    THEN [w |-> pa.w, flag |-> flag, done |-> pa.done, r |-> pa.r, side |-> a]
  ELSE poll_second(pa, fuse_poll(pa.w, pa.done, b, cx, rd), flag, b)

\* stream::select(via.into_stream(), errs.map(Err)): Select::poll_next.
select(w, s, cx, rd) ==
  IF s.flag
    THEN poll_inner(fuse_poll(w, s.done, "errs", cx, rd), s.flag, "errs", "via", cx, rd)
    ELSE poll_inner(fuse_poll(w, s.done, "via", cx, rd), s.flag, "via", "errs", cx, rd)

\* The merged stream's poll returned p to the consumer.  The wakeups the
\* source made during the poll have reached the executor.
Polled(p) ==
  /\ inner' = [p.w.inner EXCEPT !.woke = {}]
  /\ out' = p.w.out
  /\ last' = p.w.last
  /\ ended' = p.w.ended
  /\ sel' = [flag |-> p.flag, done |-> p.done, last |-> p.r.tag]
  /\ merged' = IF p.r.tag = "item"
                 THEN Append(merged,
                        [kind |-> IF p.side = "via" THEN "ok" ELSE "err",
                         val |-> p.r.val, at |-> p.r.at])
                 ELSE merged
  /\ woken' = (IF p.r.tag = "item" THEN woken ELSE woken \ {"merged"})
                 \cup p.w.inner.woke
  /\ fatal' = IF p.r.tag \in PanicTags THEN p.r.tag ELSE fatal

\* The consumer of the merged stream polls it: at first, after every item
\* it got, and when its task is woken.
PollMerged ==
  /\ "merged" \in woken
  /\ sel.last # "end"
  /\ fatal = "none"
  /\ pc.at = "idle"
  /\ \E rd \in [inner.pulled..Len(src) -> Readiness] :
       Polled(select([inner |-> inner, out |-> out, last |-> last,
                      ended |-> ended], sel, "merged", rd))
  /\ UNCHANGED <<src, cases, keep, guard, alive, pc, flat>>

InitVia ==
  /\ InitCommon
  /\ flat = NoFlatten
  /\ src \in Sources
  /\ cases = trystream_split_result
  /\ keep \in SUBSET Vals
  /\ woken = {"merged"}

NextVia ==
  \/ PollMerged
  \/ SourceProgress

SpecVia == InitVia /\ [][NextVia]_vars

\* The transformation is the identity: it polls oks once per poll and
\* returns what oks returned.  It reads no payload, so the sources of every
\* pattern of kinds are taken.
InitViaId ==
  /\ InitCommon
  /\ flat = NoFlatten
  /\ src \in NumberedSources
  /\ cases = trystream_split_result
  /\ keep = Vals
  /\ woken = {"merged"}

SpecViaId == InitViaId /\ [][NextVia]_vars

--------------------------------------------------------------------------
(* try_flatten_applied and try_flatten_touched *)

\* The items of the input stream: Err(e), or Ok of a watcher::Event, which
\* is Applied(k), Deleted(k) or Restarted(ks).  keys holds k, ks or e.
ErrItem(e) == [kind |-> "err", ev |-> "none", keys |-> <<e>>]
EventItem(ev, ks) == [kind |-> "ok", ev |-> ev, keys |-> ks]

\* watcher::Event::into_iter_applied: what the event leaves in place.
into_iter_applied(e) == IF e.ev = "deleted" THEN <<>> ELSE e.keys

\* watcher::Event::into_iter_touched: every object the event mentions.
into_iter_touched(e) == e.keys

\* The closure given to map_ok (lines 17 and 26).
expansion(mode, e) ==
  IF mode = "applied" THEN into_iter_applied(e) ELSE into_iter_touched(e)

\* The items an input stream may yield at position i, the keys numbered by
\* position so that the order inside a Restarted shows.
ItemsAt(i) ==
  LET k == ((i - 1) % MaxVal) + 1
      k2 == (i % MaxVal) + 1
  IN {ErrItem(k), EventItem("applied", <<k>>), EventItem("deleted", <<k>>),
      EventItem("restarted", <<>>), EventItem("restarted", <<k, k2>>),
      EventItem("restarted", <<k2, k>>)}

FlattenInputs ==
  UNION {{s \in [1..n -> UNION {ItemsAt(i) : i \in 1..n}] :
            \A i \in 1..n : s[i] \in ItemsAt(i)} : n \in 0..MaxLen}

\* Mutant: an Err of the input ends the flattened stream.
try_flatten_outer_stop(f, n) ==
  IF f.pos = Len(f.input) THEN [f |-> [f EXCEPT !.done = TRUE], r |-> "end"]
  ELSE IF f.pos >= n THEN [f |-> f, r |-> "pending"]
  ELSE IF f.input[f.pos + 1].kind = "err"
    THEN [f |-> [f EXCEPT !.pos = @ + 1, !.done = TRUE,
                          !.out = Append(@, [kind |-> "err",
                                             val |-> f.input[f.pos + 1].keys[1]])],
          r |-> "item"]
  ELSE [f |-> [f EXCEPT !.pos = @ + 1,
                        !.next = <<expansion(f.mode, f.input[f.pos + 1])>>],
        r |-> "loop"]

\* TryFlatten::poll_next with no stream in `next`: poll the mapped input,
\* which is ready up to position n.  An Err is returned as it is; an Ok
\* event's stream::iter(expansion.map(Ok)) becomes `next`.
try_flatten_outer(f, n) ==
  IF f.pos = Len(f.input) THEN [f |-> [f EXCEPT !.done = TRUE], r |-> "end"]
  ELSE IF f.pos >= n THEN [f |-> f, r |-> "pending"]
  ELSE IF f.input[f.pos + 1].kind = "err"
    THEN [f |-> [f EXCEPT !.pos = @ + 1,
                          !.out = Append(@, [kind |-> "err",
                                             val |-> f.input[f.pos + 1].keys[1]])],
          r |-> "item"]
  ELSE [f |-> [f EXCEPT !.pos = @ + 1,
                        !.next = <<expansion(f.mode, f.input[f.pos + 1])>>],
        r |-> "loop"]

\* TryFlatten::poll_next with a stream in `next`: its next key as Ok, or
\* `next` is cleared when it has ended.
try_flatten_inner(f) ==
  IF f.next[1] # <<>>
    THEN [f |-> [f EXCEPT !.next = <<Tail(f.next[1])>>,
                          !.out = Append(@, [kind |-> "ok", val |-> f.next[1][1]])],
          r |-> "item"]
    ELSE [f |-> [f EXCEPT !.next = <<>>], r |-> "loop"]

\* One turn of the loop in TryFlatten::poll_next.
try_flatten_turn(p, n) ==
  IF p.r # "loop" THEN p
  ELSE IF p.f.next # <<>> THEN try_flatten_inner(p.f)
  ELSE try_flatten_outer(p.f, n)

\* TryFlatten::poll_next: the loop runs until it has something to return,
\* after at most two turns per input item and one more.
try_flatten(f, n) ==
  LET loop[k \in 0..(2 * Len(f.input) + 2)] ==
        IF k = 0 THEN [f |-> f, r |-> "loop"]
        ELSE try_flatten_turn(loop[k - 1], n)
  IN loop[2 * Len(f.input) + 2]

\* The flattened stream's poll returned p to the consumer.
Flattened(p) == flat' = [p.f EXCEPT !.last = p.r]

\* The consumer polls the flattened stream; the input is ready up to n.
FlattenPoll ==
  /\ flat.mode # "none"
  /\ ~flat.done
  /\ \E n \in flat.pos..Len(flat.input) : Flattened(try_flatten(flat, n))
  /\ UNCHANGED <<src, cases, keep, inner, guard, alive, out, last, ended, pc,
                 fatal, woken, sel, merged>>

InitFlatten ==
  /\ InitCommon
  /\ src = <<>>
  /\ cases = trystream_split_result
  /\ keep = Vals
  /\ woken = {}
  /\ \E m \in {"applied", "touched"}, s \in FlattenInputs :
       flat = [NoFlatten EXCEPT !.mode = m, !.input = s]

NextFlatten == FlattenPoll

SpecFlatten == InitFlatten /\ [][NextFlatten]_vars

--------------------------------------------------------------------------
(* Derived views of the state *)

\* The number of source items taken out of the cursor.
Consumed == inner.pulled - Len(inner.peeked)

\* The item at the head of the cursor: the cached one, else the next one
\* the source will yield; NoItem when the source has no more.
HeadItem ==
  IF inner.peeked # <<>> THEN inner.peeked[1]
  ELSE IF inner.pulled < Len(src) THEN ItemAt(inner.pulled + 1)
  ELSE NoItem

Tagged == [i \in 1..Len(src) |-> ItemAt(i)]

\* The source items a branch's predicate accepts, in source order.
Mine(b) == SelectSeq(Tagged, LAMBDA x : should_consume_item(cases[b], x))

Count(s, P(_)) == Len(SelectSeq(s, P))

BothEnded == \A b \in Branches : ended[b]

--------------------------------------------------------------------------
(* C1: in the success/error split no source item is emitted twice or by   *)
(* both branches, and once both branches have reported end-of-sequence    *)
(* the items they emitted are exactly the multiset of the source's items. *)

C1_NoDuplicate ==
  \A b1 \in Branches, b2 \in Branches :
    \A i \in 1..Len(out[b1]), j \in 1..Len(out[b2]) :
      (b1 # b2 \/ i # j) => out[b1][i].at # out[b2][j].at

C1_FromSource ==
  \A b \in Branches :
    \A i \in 1..Len(out[b]) :
      /\ out[b][i].at \in 1..Len(src)
      /\ out[b][i].val = src[out[b][i].at].val
      /\ src[out[b][i].at].kind = (IF b = "oks" THEN "ok" ELSE "err")

C1_SameMultiset ==
  \A k \in Kinds, v \in Vals :
    Count(src, LAMBDA x : x.kind = k /\ x.val = v) =
      Count(out[IF k = "ok" THEN "oks" ELSE "errs"], LAMBDA x : x.val = v)

C1_SplitExact ==
  /\ C1_NoDuplicate
  /\ C1_FromSource
  /\ BothEnded => C1_SameMultiset

C1_Witness ==
  /\ BothEnded
  /\ Len(src) = 3
  /\ Len(out["oks"]) = 2
  /\ Len(out["errs"]) = 1
  /\ src[2].kind = "err"

--------------------------------------------------------------------------
(* C2: what a branch has emitted so far is a prefix of the source items   *)
(* its predicate accepts, in source order, each passed through its        *)
(* extractor: nothing out of order, nothing skipped.                      *)

C2_BranchPrefix ==
  \A b \in Branches :
    LET mine == Mine(b) IN
    /\ Len(out[b]) <= Len(mine)
    /\ \A i \in 1..Len(out[b]) :
         /\ out[b][i].at = mine[i].at
         /\ <<out[b][i].val>> = try_extract_item_case(cases[b], mine[i])

C2_Witness ==
  /\ Len(out["oks"]) = 2
  /\ out["oks"][1].val # out["oks"][2].val
  /\ Len(out["errs"]) = 1
  /\ out["oks"][1].at < out["errs"][1].at
  /\ out["errs"][1].at < out["oks"][2].at

--------------------------------------------------------------------------
(* C6: routing is by kind and by value.  Every item taken out of the      *)
(* cursor was taken by the branch of its kind, which returns its payload  *)
(* unchanged; the Ok branch never returns anything that comes from an     *)
(* error item.                                                            *)

KindOwner(k) == IF k = "err" THEN "errs" ELSE "oks"

C6_RoutedByKind ==
  /\ \A p \in 1..Consumed :
       \E i \in 1..Len(out[KindOwner(src[p].kind)]) :
         out[KindOwner(src[p].kind)][i] = [val |-> src[p].val, at |-> p]
  /\ \A i \in 1..Len(out["oks"]) : src[out["oks"][i].at].kind = "ok"

C6_Witness ==
  /\ Len(out["errs"]) = 2
  /\ out["errs"][1].val # out["errs"][2].val
  /\ Len(out["oks"]) = 1
  /\ out["errs"][1].at < out["oks"][1].at

--------------------------------------------------------------------------
(* C7: while the head item is of the other branch's kind and the other    *)
(* branch is not polling, every poll of this branch returns Pending, it   *)
(* emits nothing more and never reports end-of-sequence, and the head     *)
(* stays; a dropped branch never polls, so after a drop this is forever.  *)

HeadOf(b) == HeadItem # NoItem /\ should_consume_item(cases[b], HeadItem)

C7_StallStep(b) ==
  (HeadOf(Other(b)) /\ pc.who # Other(b)) =>
    /\ HeadOf(Other(b))'
    /\ HeadItem' = HeadItem
    /\ ~ended'[b]
    /\ out'[b] = out[b]
    /\ (pc.who = b /\ pc'.at = "idle") => last'[b] = "pending"

C7_SurvivorStalls ==
  /\ [][\A b \in Branches : C7_StallStep(b)]_vars
  /\ [](\A b \in Branches : ~alive[b] => pc.who # b)

C7_Witness ==
  \E b \in Branches :
    /\ ~alive[Other(b)]
    /\ alive[b]
    /\ HeadOf(Other(b))
    /\ inner.peeked # <<>>
    /\ last[b] = "pending"
    /\ pc.at = "idle"
    /\ \E p \in (inner.pulled + 1)..Len(src) : should_consume_item(cases[b], ItemAt(p))

--------------------------------------------------------------------------
(* C8: when no live branch's predicate accepts the head item, every poll  *)
(* returns Pending, the item stays at the head and is not dropped, no     *)
(* later item is emitted and no branch reports end-of-sequence.           *)

Unclaimed ==
  /\ HeadItem # NoItem
  /\ \A b \in Branches : alive[b] => ~should_consume_item(cases[b], HeadItem)

C8_UnclaimedStalls ==
  [][Unclaimed =>
       /\ Unclaimed'
       /\ HeadItem' = HeadItem
       /\ Consumed' = Consumed
       /\ \A b \in Branches : ~ended'[b]
       /\ out' = out
       /\ fatal' = fatal
       /\ (pc.at = "borrowed" /\ pc'.at = "idle") => last'[pc.who] = "pending"]_vars

C8_Witness ==
  /\ Unclaimed
  /\ \A b \in Branches : alive[b] /\ last[b] = "pending"
  /\ inner.peeked # <<>>
  /\ inner.pulled < Len(src)
  /\ Consumed > 0
  /\ pc.at = "idle"

--------------------------------------------------------------------------
(* C9: a poll of a branch whose predicate accepts the head item while its *)
(* extractor returns None takes the item out of the cursor and panics:    *)
(* the poll returns no value, and the panic is not an item of any branch. *)

HeadVisible ==
  inner.peeked # <<>> \/ (inner.avail /\ ~inner.fused /\ inner.pulled < Len(src))

Mismatch(b) ==
  /\ HeadVisible
  /\ should_consume_item(cases[b], HeadItem)
  /\ try_extract_item_case(cases[b], HeadItem) = <<>>

C9_MismatchFatal ==
  [][\A b \in Branches :
       (pc.who = b /\ pc.at = "borrowed" /\ pc'.at = "idle" /\ Mismatch(b)) =>
         /\ fatal' = "panic_extract"
         /\ last'[b] = "panic_extract"
         /\ Consumed' = Consumed + 1
         /\ inner'.peeked = <<>>
         /\ out' = out
         /\ ended' = ended]_vars

C9_Witness ==
  /\ fatal = "panic_extract"
  /\ Consumed = 2
  /\ \E b \in Branches : Len(out[b]) = 1 /\ last[Other(b)] = "panic_extract"

--------------------------------------------------------------------------
(* C10: the guard on the cell is taken at the start of a branch poll and  *)
(* released before the poll returns, on every path: at most one branch    *)
(* holds it, and nobody holds it between two polls.                       *)

C10_GuardReleased ==
  /\ Cardinality(guard) <= 1
  /\ inner.borrowed <=> guard # {}
  /\ guard \subseteq {pc.who}
  /\ pc.at = "idle" => guard = {}
  /\ pc.at = "borrowed" => guard = {pc.who}

C10_Witness ==
  /\ pc.at = "idle"
  /\ guard = {}
  /\ fatal = "panic_extract"
  /\ \E b \in Branches : last[b] = "pending" /\ Len(out[b]) = 1

--------------------------------------------------------------------------
(* C3: trystream_try_via passes every source error through: whatever the  *)
(* transformation, every Err item of the source is eventually emitted by  *)
(* the merged stream, when the source wakes its last poller on progress   *)
(* and the consumer polls at first, after each item and when woken.       *)

ErrVals(s) == LET e == SelectSeq(s, LAMBDA x : x.kind = "err") IN
              [i \in 1..Len(e) |-> e[i].val]
OkVals(s) == LET e == SelectSeq(s, LAMBDA x : x.kind = "ok") IN
             [i \in 1..Len(e) |-> e[i].val]

\* Nothing can happen any more: the consumer is not scheduled (or the
\* merged stream ended, or the program panicked) and the source has no
\* progress left to make.
AtRest ==
  /\ ~("merged" \in woken /\ sel.last # "end" /\ fatal = "none")
  /\ ~(~inner.avail /\ ~inner.fused /\ fatal = "none")

\* Whenever the pipeline has come to rest, every Err of the source is in
\* the merged output: otherwise it is never emitted.
C3_ErrorsPassThrough == AtRest => ErrVals(merged) = ErrVals(src)

--------------------------------------------------------------------------
(* C4: with both branches alive and polled again and again, and a source  *)
(* that becomes ready at every position, every item is eventually emitted *)
(* by the branch of its kind and both branches report end-of-sequence.    *)

C4_AllDelivered ==
  <>(/\ BothEnded
     /\ [i \in 1..Len(out["oks"]) |-> out["oks"][i].val] = OkVals(src)
     /\ [i \in 1..Len(out["errs"]) |-> out["errs"][i].val] = ErrVals(src))

C4_Witness ==
  /\ BothEnded
  /\ Len(src) = 3
  /\ src[1].kind = "err"
  /\ src[2].kind = "ok"
  /\ src[3].kind = "err"
  /\ Len(out["errs"]) = 2
  /\ Len(out["oks"]) = 1

--------------------------------------------------------------------------
(* C5: with the identity transformation, the merged stream, once it has   *)
(* ended, holds every Ok and every Err of the source once, the Oks in     *)
(* their source order and the Errs in theirs.                             *)

C5_IdentityMerge ==
  (keep = Vals /\ sel.last = "end") =>
    /\ OkVals(merged) = OkVals(src)
    /\ ErrVals(merged) = ErrVals(src)
    /\ \A i \in 1..Len(merged), j \in 1..Len(merged) :
         i # j => merged[i].at # merged[j].at

C5_Witness ==
  /\ keep = Vals
  /\ sel.last = "end"
  /\ Len(merged) = 3
  /\ src[1].kind = "ok"
  /\ src[2].kind = "err"
  /\ src[3].kind = "ok"
  /\ merged[1].val # merged[2].val

--------------------------------------------------------------------------
(* C11: a branch poll attempted while the guard on the shared cell is     *)
(* already held ends in the fatal state at once: it returns no Pending,   *)
(* and the cursor, the outputs and the wakeups are as they were.          *)

C11_ReentryFatal ==
  [][(pc.at = "borrowed" /\ pc'.at # "idle") =>
       /\ fatal' = "panic_borrow"
       /\ \E b \in Branches :
            /\ last'[b] = "panic_borrow"
            /\ last'[Other(b)] = last[Other(b)]
       /\ inner' = inner
       /\ guard' = guard
       /\ out' = out
       /\ ended' = ended
       /\ woken' = woken]_vars

C11_Witness ==
  /\ fatal = "panic_borrow"
  /\ pc.at = "unwinding"
  /\ last[Other(pc.who)] = "panic_borrow"
  /\ inner.borrowed
  /\ inner.pulled > 0
  /\ Len(out[pc.who]) = 1

--------------------------------------------------------------------------
(* C12: try_flatten_applied and try_flatten_touched emit, for the input   *)
(* items taken in order, the keys of each Ok(event)'s expansion in the    *)
(* expansion's order, each as Ok, and each Err(e) as Err(e) at its place; *)
(* an event with an empty expansion contributes nothing.                  *)

\* What one input item contributes to the flat output.
Contribution(mode, x) ==
  IF x.kind = "err" THEN <<[kind |-> "err", val |-> x.keys[1]]>>
  ELSE [i \in 1..Len(expansion(mode, x)) |->
          [kind |-> "ok", val |-> expansion(mode, x)[i]]]

RECURSIVE Flattening(_, _)
Flattening(mode, s) ==
  IF s = <<>> THEN <<>>
  ELSE Flattening(mode, SubSeq(s, 1, Len(s) - 1)) \o Contribution(mode, s[Len(s)])

\* The keys still waiting in `next`, as the Ok items they will become.
Waiting ==
  IF flat.next = <<>> THEN <<>>
  ELSE [i \in 1..Len(flat.next[1]) |-> [kind |-> "ok", val |-> flat.next[1][i]]]

C12_FlattenInOrder ==
  flat.mode # "none" =>
    /\ flat.out \o Waiting = Flattening(flat.mode, SubSeq(flat.input, 1, flat.pos))
    /\ flat.done => flat.out = Flattening(flat.mode, flat.input)
    /\ flat.last = "end" <=> flat.done

C12_Witness ==
  /\ flat.mode = "applied"
  /\ flat.done
  /\ Len(flat.input) = 3
  /\ flat.input[1] = EventItem("restarted", <<2, 1>>)
  /\ flat.input[2].ev = "deleted"
  /\ flat.input[3].kind = "err"
  /\ flat.out = <<[kind |-> "ok", val |-> 2], [kind |-> "ok", val |-> 1],
                  [kind |-> "err", val |-> flat.input[3].keys[1]]>>

--------------------------------------------------------------------------
(* C13: a poll of a branch whose predicate is false on the head item      *)
(* changes nothing in the cursor but the peek cache, which now holds that *)
(* item: nothing is consumed, the next peek by any branch sees the same   *)
(* item, and the poll returns Pending and emits nothing.                  *)

Declines(b) == HeadVisible /\ ~should_consume_item(cases[b], HeadItem)

C13_DeclineKeepsHead ==
  [][\A b \in Branches :
       (pc.who = b /\ pc.at = "borrowed" /\ pc'.at = "idle" /\ Declines(b)) =>
         /\ last'[b] = "pending"
         /\ out' = out
         /\ ended' = ended
         /\ fatal' = fatal
         /\ Consumed' = Consumed
         /\ inner'.peeked = <<HeadItem>>
         /\ inner'.fused = inner.fused
         /\ inner'.waker = inner.waker
         /\ \A t \in Branches, nx \in BOOLEAN :
              /\ peek(inner', t, Rd(nx)).tag = "some"
              /\ peek(inner', t, Rd(nx)).item = HeadItem
              /\ peek(inner', t, Rd(nx)).c = inner']_vars

C13_Witness ==
  \E b \in Branches :
    /\ pc.at = "idle"
    /\ last[b] = "pending"
    /\ inner.peeked # <<>>
    /\ ~should_consume_item(cases[b], inner.peeked[1])
    /\ should_consume_item(cases[Other(b)], inner.peeked[1])
    /\ Len(out[b]) = 1
    /\ inner.pulled = 2
    /\ Consumed = 1

--------------------------------------------------------------------------
(* C14: every source position is pulled from the source exactly once.  A  *)
(* poll that finds the cache full does not pull; a poll pulls at most one *)
(* item; the item a poll emits is the one that was at the head (the       *)
(* peeked one, never a later one); and every position pulled so far is    *)
(* either the cached one or was emitted once.                             *)

\* The source positions the branches have emitted, in one sequence.
EmittedAt ==
  [i \in 1..(Len(out["oks"]) + Len(out["errs"])) |->
     IF i <= Len(out["oks"]) THEN out["oks"][i].at
     ELSE out["errs"][i - Len(out["oks"])].at]

C14_Accounted ==
  /\ Len(inner.peeked) <= 1
  /\ Len(EmittedAt) = Consumed
  /\ {EmittedAt[i] : i \in 1..Len(EmittedAt)} = 1..Consumed
  /\ inner.peeked # <<>> => inner.peeked[1] = ItemAt(inner.pulled)

C14_PollStep ==
  (pc.at = "borrowed" /\ pc'.at = "idle") =>
    /\ inner.peeked # <<>> => inner'.pulled = inner.pulled
    /\ inner'.pulled \in {inner.pulled, inner.pulled + 1}
    /\ inner'.peeked # <<>> => inner'.peeked = <<HeadItem>>
    /\ \A b \in Branches :
         out'[b] # out[b] =>
           out'[b] = Append(out[b], [val |-> HeadItem.val, at |-> HeadItem.at])

C14_PulledOnce ==
  /\ []C14_Accounted
  /\ [][C14_PollStep]_vars

C14_Witness ==
  /\ pc.at = "idle"
  /\ inner.pulled = 3
  /\ inner.peeked # <<>>
  /\ Len(out["oks"]) = 1
  /\ Len(out["errs"]) = 1
  /\ \E b \in Branches :
       last[b] = "pending" /\ ~should_consume_item(cases[b], inner.peeked[1])

--------------------------------------------------------------------------
(* C15: end-of-sequence is terminal and shared.  Once a branch has        *)
(* returned Ready(None), every later poll of either branch returns        *)
(* Ready(None) and emits nothing; and a branch has returned Ready(None)   *)
(* only with the cache empty and every source item pulled.                *)

AnyEnded == \E b \in Branches : ended[b]

C15_EndState ==
  /\ AnyEnded =>
       /\ inner.fused
       /\ inner.peeked = <<>>
       /\ inner.pulled = Len(src)
       /\ HeadItem = NoItem
  /\ \A b \in Branches : last[b] = "end" => ended[b]

C15_EndStep ==
  (AnyEnded /\ pc.at = "borrowed" /\ pc'.at = "idle") =>
    /\ last'[pc.who] = "end"
    /\ ended'[pc.who]
    /\ out' = out
    /\ fatal' = fatal

C15_EndShared ==
  /\ []C15_EndState
  /\ [][C15_EndStep]_vars

C15_Witness ==
  /\ pc.at = "idle"
  /\ BothEnded
  /\ last["oks"] = "end"
  /\ last["errs"] = "end"
  /\ Len(src) = 3
  /\ Len(out["oks"]) + Len(out["errs"]) = 3
  /\ cases["oks"].should # cases["errs"].should

--------------------------------------------------------------------------
(* C16: a poll that returns Pending because the head item is another      *)
(* branch's registers no wakeup: no waker is left with the source and no  *)
(* task is woken.  With each branch polled by its own consumer only when  *)
(* woken, a state is reached where the cached head item belongs to a live *)
(* branch that is suspended while nobody is scheduled, and from there the *)
(* branch stays suspended and the item stays for ever.                    *)

\* Nobody is scheduled and the cached head item is one a suspended live
\* branch owns.
Stranded ==
  /\ pc.at = "idle"
  /\ fatal = "none"
  /\ woken = {}
  /\ inner.peeked # <<>>
  /\ \E b \in Branches :
       /\ alive[b]
       /\ ~ended[b]
       /\ last[b] = "pending"
       /\ should_consume_item(cases[b], inner.peeked[1])

C16_DeclineStep ==
  \A b \in Branches :
    (pc.who = b /\ pc.at = "borrowed" /\ pc'.at = "idle" /\ Declines(b)) =>
      /\ last'[b] = "pending"
      /\ woken' = woken
      /\ inner'.waker = inner.waker

C16_StrandedStep ==
  Stranded =>
    /\ Stranded'
    /\ inner'.peeked = inner.peeked
    /\ out' = out

C16_LostWakeup == [][C16_DeclineStep /\ C16_StrandedStep]_vars

C16_Witness ==
  /\ Stranded
  /\ inner.peeked[1].kind = "err"
  /\ last["oks"] = "pending"
  /\ Len(out["oks"]) = 1
  /\ out["errs"] = <<>>
  /\ inner.pulled < Len(src)

--------------------------------------------------------------------------
(* C17: the shared cell, with the source and the cached head item, lives  *)
(* as long as one branch does.  The drop of one branch leaves the cell as *)
(* it was, the survivor still takes the head items of its kind, and the   *)
(* cell is destroyed exactly when the last branch is dropped.             *)

C17_LiveWhileHeld == inner.live <=> (\E b \in Branches : alive[b])

C17_DropStep ==
  \A b \in Branches :
    (alive[b] /\ ~alive'[b] /\ alive'[Other(b)]) =>
      /\ inner' = inner
      /\ HeadItem' = HeadItem
      /\ Consumed' = Consumed

C17_SurvivorStep ==
  \A b \in Branches :
    (/\ ~alive[Other(b)]
     /\ pc.who = b /\ pc.at = "borrowed" /\ pc'.at = "idle"
     /\ HeadVisible
     /\ should_consume_item(cases[b], HeadItem)) =>
      /\ inner'.live
      /\ out'[b] = Append(out[b], [val |-> HeadItem.val, at |-> HeadItem.at])
      /\ Consumed' = Consumed + 1

C17_CursorShared ==
  /\ []C17_LiveWhileHeld
  /\ [][C17_DropStep /\ C17_SurvivorStep]_vars

C17_Witness ==
  /\ ~alive["oks"]
  /\ alive["errs"]
  /\ inner.live
  /\ last["oks"] = "pending"
  /\ pc = [who |-> "errs", at |-> "borrowed"]
  /\ inner.peeked # <<>>
  /\ inner.peeked[1].kind = "err"
  /\ out["errs"] = <<>>

--------------------------------------------------------------------------
(* C18: with the identity transformation, a source that wakes its last    *)
(* registered poller and a consumer that polls at first, after each item  *)
(* and when woken, no item is left at the head with nobody scheduled.     *)

\* As claimed: after a poll of the merged stream that returned Pending,
\* the peek cache is empty and the merged task's waker is with the source
\* (or the source has called it since).
C18_PendingCacheEmpty ==
  (keep = Vals /\ sel.last = "pending") =>
    /\ inner.peeked = <<>>
    /\ inner.waker = "merged" \/ "merged" \in woken

\* As amended: after a poll of the merged stream that returned Pending,
\* either the consumer's task has been woken, or the peek cache is empty
\* and the task's waker is with the source.
C18_NeverStranded ==
  (keep = Vals /\ sel.last = "pending") =>
    \/ "merged" \in woken
    \/ /\ inner.peeked = <<>>
       /\ inner.waker = "merged"
       /\ ~inner.avail
       /\ ~inner.fused

C18_Witness ==
  /\ keep = Vals
  /\ sel.last = "pending"
  /\ inner.peeked # <<>>
  /\ inner.peeked[1].kind = "err"
  /\ "merged" \in woken
  /\ Len(merged) = 1

\* The other case of the amended claim: the cache is empty and the waker
\* is registered.
C18_WitnessRegistered ==
  /\ keep = Vals
  /\ sel.last = "pending"
  /\ inner.peeked = <<>>
  /\ inner.waker = "merged"
  /\ woken = {}
  /\ Len(merged) = 2

--------------------------------------------------------------------------
(* C19: with the two branches of trystream_split_result polled one after  *)
(* the other in any interleaving, no panic is reachable: every source     *)
(* item is accepted by exactly one of is_ok and is_err, whose extractor   *)
(* then yields its payload, the consume after a peek that showed an item  *)
(* returns an item, and borrow_mut never finds the cell borrowed.         *)

C19_NoFatal ==
  /\ fatal = "none"
  /\ \A b \in Branches : last[b] \notin PanicTags
  /\ pc.at = "idle" => ~inner.borrowed
  /\ \A i \in 1..Len(src) :
       /\ is_ok(ItemAt(i)) # is_err(ItemAt(i))
       /\ \A b \in Branches :
            should_consume_item(cases[b], ItemAt(i)) =>
              try_extract_item_case(cases[b], ItemAt(i)) = <<src[i].val>>

C19_Witness ==
  /\ fatal = "none"
  /\ BothEnded
  /\ Len(src) = 3
  /\ src[1].kind = "err"
  /\ src[2].kind = "err"
  /\ src[3].kind = "ok"
  /\ Len(out["errs"]) = 2
  /\ Len(out["oks"]) = 1
  /\ pc.at = "idle"

--------------------------------------------------------------------------
(* C20: with the identity transformation the merged output is the source  *)
(* sequence in its order, Oks and Errs interleaved as in the source,      *)
(* whichever side select polls first: what has been emitted is always a   *)
(* prefix of the source, the whole of it once the merged stream has       *)
(* ended, and the head item is never one both branches accept.            *)

C20_MergedIsSource ==
  keep = Vals =>
    /\ Len(merged) <= Len(src)
    /\ \A i \in 1..Len(merged) : merged[i] = ItemAt(i)
    /\ sel.last = "end" => Len(merged) = Len(src)
    /\ ~(HeadOf("oks") /\ HeadOf("errs"))

C20_Witness ==
  /\ keep = Vals
  /\ sel.last = "end"
  /\ Len(merged) = 3
  /\ merged[1].kind = "err"
  /\ merged[2].kind = "ok"
  /\ merged[3].kind = "err"

==========================================================================
